---- MODULE Spec2Model ----
(***************************************************************************)
(* Model of flatcombine (CofI_KOSMOS/flatcombine.py): the wrapper that     *)
(* reduces a batch of flat exposures, median-combines them, optionally     *)
(* trims the result to the illuminated part of the CCD and optionally      *)
(* divides out the spectral response.                                      *)
(*                                                                         *)
(* One call of flatcombine is one behaviour.  The call's arguments are     *)
(* drawn in Init, the locals of the function are the variables, and every  *)
(* step that calls into a library (apo_proc, Combiner.median_combine,      *)
(* kosmos.find_illum, trim_image, kosmos.flat_response) is one action.     *)
(* A library call either returns a value or raises; what it raises is not  *)
(* caught by flatcombine.                                                  *)
(*                                                                         *)
(* Pixel values are exact rationals <<num, den>> (den > 0, lowest terms),  *)
(* images are records [data, response]: data is the 2-D pixel array (a     *)
(* sequence of rows), response the arguments of the flat_response calls    *)
(* the image went through.  Python indices are 0-based; TLA+ sequences     *)
(* are 1-based, so element i of a Python array is element i + 1 here.      *)
(***************************************************************************)
EXTENDS Integers, Sequences, FiniteSets

VARIABLES
    args,      \* the arguments of the call (never assigned after Init)
    Saxis,     \* local Saxis (parameter, reassigned by the axis check)
    Waxis,     \* local Waxis (parameter, reassigned by the axis check)
    flist,     \* list of reduced (and normalized) frames
    ind,       \* loop index of the reduction loop
    medflat,   \* the combined flat (then trimmed, then response-corrected)
    ilum,      \* index array returned by find_illum
    pc,        \* position in the body of flatcombine
    calls,     \* the library calls made so far, in order, with arguments
    exc,       \* the exception leaving flatcombine ("" when none)
    result     \* the objects returned: <<>>, <<flat>> or <<flat, ilum>>

vars == <<args, Saxis, Waxis, flist, ind, medflat, ilum, pc, calls, exc, result>>

\* Largest number of entries of ffiles explored.
MaxFiles == 2

(***************************************************************************)
(* Exact arithmetic on pixel values.                                       *)
(***************************************************************************)
RECURSIVE GCD(_, _)
GCD(a, b) == IF b = 0 THEN a ELSE GCD(b, a % b)

Abs(x) == IF x < 0 THEN -x ELSE x

\* The rational n/d (d > 0) in lowest terms.
Rat(n, d) == LET g == GCD(Abs(n), d) IN <<n \div g, d \div g>>

\* True division a / b of two pixel values (b > 0).
RDiv(a, b) == Rat(a[1] * b[2], a[2] * b[1])

RLess(a, b) == a[1] * b[2] < b[1] * a[2]

RLeq(a, b) == a[1] * b[2] <= b[1] * a[2]

\* Mean of two values, as the median of an even-sized sample takes it.
RMean(a, b) == Rat(a[1] * b[2] + b[1] * a[2], 2 * a[2] * b[2])

\* The k-th smallest (k = 1..Len(s)) of a sequence of values.
Kth(s, k) ==
    CHOOSE x \in {s[i] : i \in 1..Len(s)} :
        /\ Cardinality({i \in 1..Len(s) : RLess(s[i], x)}) < k
        /\ Cardinality({i \in 1..Len(s) : RLeq(s[i], x)}) >= k

\* Median of a non-empty sequence of values.
Median(s) ==
    LET n == Len(s) IN
    IF n % 2 = 1 THEN Kth(s, (n + 1) \div 2)
    ELSE RMean(Kth(s, n \div 2), Kth(s, n \div 2 + 1))

(***************************************************************************)
(* 2-D arrays.                                                             *)
(***************************************************************************)
NRows(d) == Len(d)

NCols(d) == IF Len(d) = 0 THEN 0 ELSE Len(d[1])

\* shape[axis] of a 2-D array.
Extent(d, axis) == IF axis = 0 THEN NRows(d) ELSE NCols(d)

RECURSIVE Flatten(_)
Flatten(d) == IF Len(d) = 0 THEN <<>> ELSE d[1] \o Flatten(Tail(d))

\* An integer-valued array as an array of pixel values.
IntData(m) == [i \in 1..Len(m) |-> [j \in 1..Len(m[i]) |-> <<m[i][j], 1>>]]

CCD(d) == [data |-> d, response |-> <<>>]

NoImage == CCD(<<>>)

(***************************************************************************)
(* The call's arguments (lines 1-6).                                       *)
(***************************************************************************)
\* Paths that may appear in ffiles.
Files == {"flat1.fits", "flat2.fits"}

SeqsUpTo(S, n) == UNION {[1..k -> S] : k \in 0..n}

\* The arguments flatcombine only passes on to the library calls: the
\* defaults of the signature, and a call that overrides every one of them.
\* None is the string "None"; threshold is a fraction between 0 and 1,
\* written like the pixel values as <<num, den>>: the default 0.9 of line 2
\* is <<9, 10>>, the override 0.5 is <<1, 2>>.
Keywords ==
    { [bias |-> "None", dark |-> "None", trim |-> TRUE,
       EXPTIME |-> "EXPTIME", DATASEC |-> "DATASEC",
       threshold |-> <<9, 10>>, smooth |-> FALSE, npix |-> 11],
      [bias |-> "medbias", dark |-> "meddark", trim |-> FALSE,
       EXPTIME |-> "EXPOSURE", DATASEC |-> "TRIMSEC",
       threshold |-> <<1, 2>>, smooth |-> TRUE, npix |-> 5] }

\* Values passed as Saxis and Waxis.  The docstring names 0 and 1; the code
\* accepts any integer, and -1 is numpy's name for the last axis of an array.
Axes == {-1, 0, 1}

\* The axis of a 2-D array that numpy means by a (negative counts from the end).
ArrayAxis(a) == IF a < 0 THEN a + 2 ELSE a

Arguments ==
    { [ffiles |-> f, bias |-> kw.bias, dark |-> kw.dark, trim |-> kw.trim, normframe |-> n,
       illumcor |-> i, threshold |-> kw.threshold, responsecor |-> r,
       smooth |-> kw.smooth, npix |-> kw.npix, Saxis |-> s, Waxis |-> w,
       EXPTIME |-> kw.EXPTIME, DATASEC |-> kw.DATASEC] :
      f \in SeqsUpTo(Files, MaxFiles), kw \in Keywords,
      n \in BOOLEAN, i \in BOOLEAN, r \in BOOLEAN,
      s \in Axes, w \in Axes }

(***************************************************************************)
(* Outcomes of the library calls.  An outcome is [err, val]: err = "" and  *)
(* val the returned object, or err the exception raised.                   *)
(***************************************************************************)
\* Exceptions a library call may raise for reasons outside flatcombine
\* (unreadable file, bad header, ...).
Errors == {"OSError", "ValueError"}

Returned(v) == [err |-> "", val |-> v]

Raised(e, placeholder) == [err |-> e, val |-> placeholder]

\* Frames apo_proc may return: two of shape (2, 3) and one of shape (3, 2).
Frames ==
    { CCD(IntData(<< <<2, 4, 6>>, <<4, 8, 2>> >>)),
      CCD(IntData(<< <<3, 1, 2>>, <<5, 3, 3>> >>)),
      CCD(IntData(<< <<1, 2>>, <<3, 4>>, <<5, 6>> >>)) }

\* apo_proc(ffiles[ind], ...) of line 77: a reduced frame, or an exception.
ApoProcOutcomes ==
    {Returned(f) : f \in Frames} \cup {Raised(e, NoImage) : e \in Errors}

\* The arguments of the apo_proc call of line 77 for loop index i.
ApoProcArgs(i) ==
    [file |-> args.ffiles[i + 1], bias |-> args.bias, dark |-> args.dark,
     EXPTIME |-> args.EXPTIME, DATASEC |-> args.DATASEC, trim |-> args.trim]

\* np.nanmedian(img.data) of line 80: median of the flattened array.
NanMedian(d) == Median(Flatten(d))

\* Faulty variant of NormFrame: the quotient is computed but never assigned
\* back to img.data.
NormFrameNotAssigned(img) == img

\* Lines 79-80: img.data = img.data / np.nanmedian(img.data) when normframe.
NormFrame(img) ==
    IF args.normframe
    THEN LET m == NanMedian(img.data) IN
         [img EXCEPT !.data =
             [i \in 1..Len(img.data) |->
                 [j \in 1..Len(img.data[i]) |-> RDiv(img.data[i][j], m)]]]
    ELSE img

\* The frames of a list do not all have one shape.
ShapesDiffer(fl) ==
    \E a, b \in 1..Len(fl) :
        \/ NRows(fl[a].data) # NRows(fl[b].data)
        \/ NCols(fl[a].data) # NCols(fl[b].data)

\* Pixel-wise median of a non-empty list of same-shaped frames.
MedianCombine(fl) ==
    CCD([i \in 1..NRows(fl[1].data) |->
            [j \in 1..NCols(fl[1].data) |->
                Median([k \in 1..Len(fl) |-> fl[k].data[i][j]])]])

\* Combiner(flist).median_combine() of line 84.  Combiner rejects an empty
\* list and frames of different sizes with a TypeError.
CombinerOutcomes(fl) ==
    IF Len(fl) = 0 \/ ShapesDiffer(fl)
    THEN {Raised("TypeError", NoImage)}
    ELSE {Returned(MedianCombine(fl))} \cup {Raised(e, NoImage) : e \in Errors}

\* Strictly increasing arrays of indices 0..n-1 (what np.where returns).
IndexArrays(n) ==
    {s \in SeqsUpTo(0..(n - 1), n) : \A i \in 1..(Len(s) - 1) : s[i] < s[i + 1]}

\* kosmos.find_illum(medflat, threshold, Waxis) of line 87: the indices,
\* along the axis that is not Waxis, of the illuminated part of the flat.
FindIllumOutcomes(flat, w) ==
    {Returned(a) : a \in IndexArrays(Extent(flat.data, 1 - ArrayAxis(w)))}
        \cup {Raised(e, <<>>) : e \in Errors}

\* Python's s[a:b] on a sequence (negative indices count from the end).
PyIndex(n, i) ==
    IF i < 0 THEN (IF i + n < 0 THEN 0 ELSE i + n) ELSE (IF i > n THEN n ELSE i)

PySlice(s, a, b) == SubSeq(s, PyIndex(Len(s), a) + 1, PyIndex(Len(s), b))

\* The section handed to trim_image: medflat[ilum[0]:(ilum[-1] + 1), :] of
\* line 90 when w = 1, medflat[:, ilum[0]:(ilum[-1] + 1)] of line 92 when
\* w = 0.  Used under the guards of lines 89 and 91 only.
TrimSlice(flat, il, w) ==
    LET lo == il[1]
        hi == il[Len(il)] + 1
    IN  IF w = 1
        THEN [flat EXCEPT !.data = PySlice(flat.data, lo, hi)]
        ELSE [flat EXCEPT !.data =
                 [i \in 1..Len(flat.data) |-> PySlice(flat.data[i], lo, hi)]]

\* trim_image(section) of lines 90 and 92: a copy of the section it is given.
TrimImageOutcomes(section) ==
    {Returned(section)} \cup {Raised(e, NoImage) : e \in Errors}

\* kosmos.flat_response(medflat, smooth, npix, Saxis) of line 95.
FlatResponseOutcomes(flat) ==
    {Returned([flat EXCEPT !.response =
                  Append(@, [smooth |-> args.smooth, npix |-> args.npix, Saxis |-> Saxis])])}
        \cup {Raised(e, NoImage) : e \in Errors}

\* Record of one library call.
Call(fn, arg, out) == [fn |-> fn, arg |-> arg, err |-> out.err, ret |-> out.val]

(***************************************************************************)
(* The body of flatcombine.                                                *)
(***************************************************************************)
Init ==
    /\ args \in Arguments
    /\ Saxis = args.Saxis
    /\ Waxis = args.Waxis
    /\ flist = <<>>
    /\ ind = 0
    /\ medflat = NoImage
    /\ ilum = <<>>
    /\ pc = "axes"
    /\ calls = <<>>
    /\ exc = ""
    /\ result = <<>>

\* Faulty variant of AxisSwap: swaps only when both axes were passed swapped.
AxisSwapWhenBoth(s, w) == IF (s = 1) /\ (w = 0) THEN <<1, 0>> ELSE <<s, w>>

\* Lines 68-71: if either axis is swapped, swap them both.
AxisSwap(s, w) == IF (s = 1) \/ (w = 0) THEN <<1, 0>> ELSE <<s, w>>

\* Lines 66-73.
AxisCheck ==
    /\ pc = "axes"
    /\ Saxis' = AxisSwap(Saxis, Waxis)[1]
    /\ Waxis' = AxisSwap(Saxis, Waxis)[2]
    /\ flist' = <<>>
    /\ pc' = "loop"
    /\ UNCHANGED <<args, ind, medflat, ilum, calls, exc, result>>

\* Faulty variant of Propagate: the exception is caught and flatcombine goes
\* on to its return statement.
PropagateCaught(e) ==
    /\ exc' = ""
    /\ pc' = "return"
    /\ result' = <<>>
    /\ UNCHANGED <<args, Saxis, Waxis, flist, ind, medflat, ilum>>

\* An exception e leaves flatcombine: nothing catches it (there is no try
\* in lines 65-101), the remaining statements do not run, nothing is returned.
Propagate(e) ==
    /\ exc' = e
    /\ pc' = "raised"
    /\ result' = <<>>
    /\ UNCHANGED <<args, Saxis, Waxis, flist, ind, medflat, ilum>>

\* Line 75: the loop has run over all of ffiles.
LoopDone == ind >= Len(args.ffiles)

\* Faulty variant of AppendFrame: the frame is inserted at the front.
PrependFrame(fl, img) == <<img>> \o fl

\* Line 82: flist.append(img).
AppendFrame(fl, img) == Append(fl, img)

\* Lines 75-82: one iteration of the reduction loop.
Reduce ==
    /\ pc = "loop"
    /\ ~LoopDone
    /\ \E out \in ApoProcOutcomes :
        /\ calls' = Append(calls, Call("apo_proc", ApoProcArgs(ind), out))
        /\ IF out.err # ""
           THEN Propagate(out.err)
           ELSE /\ flist' = AppendFrame(flist, NormFrame(out.val))
                /\ ind' = ind + 1
                /\ UNCHANGED <<args, Saxis, Waxis, medflat, ilum, pc, exc, result>>

\* Line 84.
Combine ==
    /\ pc = "loop"
    /\ LoopDone
    /\ \E out \in CombinerOutcomes(flist) :
        /\ calls' = Append(calls, Call("median_combine", [frames |-> flist], out))
        /\ IF out.err # ""
           THEN Propagate(out.err)
           ELSE /\ medflat' = out.val
                /\ pc' = "illum"
                /\ UNCHANGED <<args, Saxis, Waxis, flist, ind, ilum, exc, result>>

\* Line 86, and line 98: the test on illumcor.
WantIllum == args.illumcor

\* Faulty variant of WantResponse: the response step follows illumcor.
WantResponseTied == args.illumcor

\* Line 94: the test on responsecor.
WantResponse == args.responsecor

\* Lines 86-87.
FindIllum ==
    /\ pc = "illum"
    /\ WantIllum
    /\ \E out \in FindIllumOutcomes(medflat, Waxis) :
        /\ calls' = Append(calls,
               Call("find_illum",
                    [flat |-> medflat, threshold |-> args.threshold, Waxis |-> Waxis], out))
        /\ IF out.err # ""
           THEN Propagate(out.err)
           ELSE /\ ilum' = out.val
                /\ pc' = "trim"
                /\ UNCHANGED <<args, Saxis, Waxis, flist, ind, medflat, exc, result>>

\* Line 86 with illumcor False: lines 87-92 are skipped.
SkipIllum ==
    /\ pc = "illum"
    /\ ~WantIllum
    /\ pc' = "response"
    /\ UNCHANGED <<args, Saxis, Waxis, flist, ind, medflat, ilum, calls, exc, result>>

\* Lines 89 and 91: the two tests on Waxis, one of which must hold for the
\* flat to be trimmed.
TrimApplies == Waxis = 1 \/ Waxis = 0

\* Lines 89-92.  Under either guard, ilum[0] on an empty array raises
\* IndexError before trim_image is called.  With Waxis neither 1 nor 0 both
\* guards are false: ilum is not read, trim_image is not called and the
\* flat stays as combined.
Trim ==
    /\ pc = "trim"
    /\ IF ~TrimApplies
       THEN /\ pc' = "response"
            /\ UNCHANGED <<args, Saxis, Waxis, flist, ind, medflat, ilum, calls, exc, result>>
       ELSE IF Len(ilum) = 0
       THEN /\ Propagate("IndexError")
            /\ UNCHANGED calls
       ELSE \E out \in TrimImageOutcomes(TrimSlice(medflat, ilum, Waxis)) :
            /\ calls' = Append(calls,
                   Call("trim_image", [flat |-> TrimSlice(medflat, ilum, Waxis)], out))
            /\ IF out.err # ""
               THEN Propagate(out.err)
               ELSE /\ medflat' = out.val
                    /\ pc' = "response"
                    /\ UNCHANGED <<args, Saxis, Waxis, flist, ind, ilum, exc, result>>

\* Lines 94-95.
Response ==
    /\ pc = "response"
    /\ WantResponse
    /\ \E out \in FlatResponseOutcomes(medflat) :
        /\ calls' = Append(calls,
               Call("flat_response",
                    [flat |-> medflat, smooth |-> args.smooth, npix |-> args.npix,
                     Saxis |-> Saxis], out))
        /\ IF out.err # ""
           THEN Propagate(out.err)
           ELSE /\ medflat' = out.val
                /\ pc' = "return"
                /\ UNCHANGED <<args, Saxis, Waxis, flist, ind, ilum, exc, result>>

\* Line 94 with responsecor False: line 95 is skipped.
SkipResponse ==
    /\ pc = "response"
    /\ ~WantResponse
    /\ pc' = "return"
    /\ UNCHANGED <<args, Saxis, Waxis, flist, ind, medflat, ilum, calls, exc, result>>

\* Faulty variant of ReturnValue: the pair is returned whatever illumcor is.
ReturnValueAlwaysPair == <<medflat, ilum>>

\* Lines 98-101: the objects returned.
ReturnValue == IF WantIllum THEN <<medflat, ilum>> ELSE <<medflat>>

Return ==
    /\ pc = "return"
    /\ result' = ReturnValue
    /\ pc' = "done"
    /\ UNCHANGED <<args, Saxis, Waxis, flist, ind, medflat, ilum, calls, exc>>

Next ==
    \/ AxisCheck
    \/ Reduce
    \/ Combine
    \/ FindIllum
    \/ SkipIllum
    \/ Trim
    \/ Response
    \/ SkipResponse
    \/ Return

Spec == Init /\ [][Next]_vars

TypeOK ==
    /\ args \in Arguments
    /\ pc \in {"axes", "loop", "illum", "trim", "response", "return", "done", "raised"}
    /\ ind \in 0..Len(args.ffiles)
    /\ Len(result) \in 0..2

(***************************************************************************)
(* Vocabulary of the properties: the record of library calls.              *)
(***************************************************************************)
\* Positions in calls of the calls of fn.
CallsOf(fn) == {k \in 1..Len(calls) : calls[k].fn = fn}

\* Positions in calls of the calls of fn that returned.
ReturnsOf(fn) == {k \in CallsOf(fn) : calls[k].err = ""}

\* Place of a library call in the pipeline.
Stage(fn) ==
    CASE fn = "apo_proc" -> 1
      [] fn = "median_combine" -> 2
      [] fn = "find_illum" -> 3
      [] fn = "trim_image" -> 4
      [] fn = "flat_response" -> 5

\* The flat the last image-producing call after the loop returned.
LastFlat ==
    LET ks == ReturnsOf("median_combine") \cup ReturnsOf("trim_image")
                  \cup ReturnsOf("flat_response")
    IN  calls[CHOOSE k \in ks : \A l \in ks : l <= k].ret

\* Two pixel arrays have one shape.
SameShape(a, b) ==
    /\ Len(a) = Len(b)
    /\ \A i \in 1..Len(a) : Len(a[i]) = Len(b[i])

\* Pixel value x times m equals pixel value o.
TimesIs(x, m, o) == x[1] * m[1] * o[2] = o[1] * x[2] * m[2]

\* Frame a is frame r with every pixel divided by the value m.
DividedBy(a, r, m) ==
    /\ SameShape(a.data, r.data)
    /\ \A i \in 1..Len(a.data) : \A j \in 1..Len(a.data[i]) :
           TimesIs(a.data[i][j], m, r.data[i][j])

\* Frame a is frame r up to one positive factor common to all pixels.
SameUpToScale(a, r) ==
    /\ SameShape(a.data, r.data)
    /\ \A i \in 1..Len(a.data) : \A j \in 1..Len(a.data[i]) :
           a.data[i][j][1] * a.data[1][1][2] * r.data[1][1][1] * r.data[i][j][2]
               = r.data[i][j][1] * r.data[1][1][2] * a.data[1][1][1] * a.data[i][j][2]

(***************************************************************************)
(* Properties.                                                             *)
(***************************************************************************)

\* C1: a call that completes returns the pair (flat, ilum) exactly when
\* illumcor is True and the flat alone exactly when illumcor is False; the
\* first returned object is the final flat in both cases (whatever
\* normframe, responsecor, trim, Saxis and Waxis are), and the ilum of the
\* pair is the array find_illum returned.
C1_ReturnShape ==
    pc = "done" =>
        /\ Len(result) = 2 <=> args.illumcor
        /\ Len(result) = 1 <=> ~args.illumcor
        /\ result[1] = LastFlat
        /\ args.illumcor =>
               \E k \in ReturnsOf("find_illum") : result[2] = calls[k].ret

C1_Witness ==
    /\ pc = "done"
    /\ args.illumcor /\ ~args.normframe /\ ~args.responsecor /\ ~args.trim
    /\ args.Saxis = 1
    /\ Len(result) = 2
    /\ Len(result[2]) = 2

\* C2: the library calls occur in the order apo_proc (all files), median
\* combination, find_illum, trim_image, flat_response.  The combination is
\* called only after every file has been reduced, find_illum only on the
\* flat the combination returned, and flat_response only after find_illum
\* and trim_image have returned when illumcor is True, in which case it is
\* given the trimmed flat.
C2_PipelineOrder ==
    /\ \A i, j \in 1..Len(calls) :
           i < j => Stage(calls[i].fn) <= Stage(calls[j].fn)
    /\ \A c \in CallsOf("median_combine") :
           Cardinality({k \in ReturnsOf("apo_proc") : k < c}) = Len(args.ffiles)
    /\ \A f \in CallsOf("find_illum") :
           \E c \in ReturnsOf("median_combine") :
               c < f /\ calls[f].arg.flat = calls[c].ret
    /\ \A r \in CallsOf("flat_response") :
           /\ \E c \in ReturnsOf("median_combine") : c < r
           /\ args.illumcor =>
                  /\ \E f \in ReturnsOf("find_illum") : f < r
                  /\ \E t \in ReturnsOf("trim_image") :
                         t < r /\ calls[r].arg.flat = calls[t].ret

\* C3: with normframe True every frame handed to the median combination
\* is the frame apo_proc returned for that position divided by its own
\* median; with normframe False it is exactly the frame apo_proc returned.
C3_NormalizedFrames ==
    \A c \in CallsOf("median_combine") :
        \A k \in 1..Len(calls[c].arg.frames) :
            /\ calls[k].fn = "apo_proc"
            /\ IF args.normframe
               THEN DividedBy(calls[c].arg.frames[k], calls[k].ret,
                              NanMedian(calls[k].ret.data))
               ELSE calls[c].arg.frames[k] = calls[k].ret

C3_Witness ==
    /\ args.normframe
    /\ \E c \in CallsOf("median_combine") :
           /\ Len(calls[c].arg.frames) = 2
           /\ calls[c].arg.frames[1] # calls[1].ret
           /\ calls[1].ret # calls[2].ret
           /\ NanMedian(calls[1].ret.data) # NanMedian(calls[2].ret.data)

\* C4: find_illum and flat_response are called at most once each;
\* find_illum (and trim_image) never when illumcor is False, flat_response
\* never when responsecor is False; a call that completes has called
\* find_illum exactly once when illumcor is True and flat_response exactly
\* once when responsecor is True.  With illumcor False the flat keeps the
\* combined flat's pixels, with responsecor False the flat returned is the
\* combined flat, or the trimmed one when it was trimmed, unchanged.
C4_OptionalSteps ==
    /\ Cardinality(CallsOf("find_illum")) <= 1
    /\ Cardinality(CallsOf("flat_response")) <= 1
    /\ ~args.illumcor => CallsOf("find_illum") = {} /\ CallsOf("trim_image") = {}
    /\ ~args.responsecor => CallsOf("flat_response") = {}
    /\ pc = "done" =>
           /\ args.illumcor => Cardinality(ReturnsOf("find_illum")) = 1
           /\ args.responsecor => Cardinality(ReturnsOf("flat_response")) = 1
           /\ ~args.illumcor =>
                  \E c \in ReturnsOf("median_combine") :
                      result[1].data = calls[c].ret.data
           /\ ~args.responsecor =>
                  IF ReturnsOf("trim_image") # {}
                  THEN \E t \in ReturnsOf("trim_image") : result[1] = calls[t].ret
                  ELSE \E c \in ReturnsOf("median_combine") : result[1] = calls[c].ret

C4_Witness ==
    /\ pc = "done"
    /\ ~args.illumcor /\ args.responsecor
    /\ CallsOf("find_illum") = {}
    /\ Cardinality(CallsOf("flat_response")) = 1
    /\ Len(result[1].response) = 1

\* C5: for Saxis, Waxis in {0, 1}, after the axis check the pair
\* (Saxis, Waxis) is (0, 1) when the call passed Saxis = 0 and Waxis = 1 and
\* (1, 0) otherwise; the Waxis given to find_illum and the Saxis given to
\* flat_response are these two, hence different axes.
C5_AxesConsistent ==
    (args.Saxis \in {0, 1} /\ args.Waxis \in {0, 1}) =>
        /\ pc # "axes" =>
               <<Saxis, Waxis>> = IF args.Saxis = 0 /\ args.Waxis = 1
                                  THEN <<0, 1>> ELSE <<1, 0>>
        /\ \A f \in CallsOf("find_illum") : calls[f].arg.Waxis = Waxis
        /\ \A r \in CallsOf("flat_response") : calls[r].arg.Saxis = Saxis
        /\ \A f \in CallsOf("find_illum") : \A r \in CallsOf("flat_response") :
               calls[f].arg.Waxis # calls[r].arg.Saxis

C5_Witness ==
    /\ args.Saxis = 1 /\ args.Waxis = 1
    /\ Saxis = 1 /\ Waxis = 0
    /\ CallsOf("find_illum") # {}
    /\ CallsOf("flat_response") # {}

\* C6: a library call that raises is the last thing flatcombine does: the
\* exception leaves flatcombine as raised, no later call is made and nothing
\* is returned.  An empty ffiles makes the median combination raise.
C6_FailurePropagates ==
    /\ \A k \in 1..Len(calls) :
           calls[k].err # "" =>
               /\ k = Len(calls)
               /\ pc = "raised"
               /\ exc = calls[k].err
               /\ result = <<>>
    /\ pc = "raised" => exc # "" /\ result = <<>>
    /\ exc # "" => pc = "raised"
    /\ (Len(args.ffiles) = 0 /\ pc \notin {"axes", "loop"}) =>
           /\ pc = "raised"
           /\ calls[Len(calls)].fn = "median_combine"

C6_Witness ==
    /\ pc = "raised"
    /\ Len(calls) = 4
    /\ calls[4].fn = "find_illum"
    /\ calls[4].err = "ValueError"
    /\ exc = "ValueError"

\* Loop invariant of C7: apo_proc is called once per entry of ffiles, in input order, each
\* time with the bias, dark, trim, EXPTIME and DATASEC of the call; the loop
\* is left after exactly len(ffiles) iterations, and the list handed to the
\* median combination holds len(ffiles) frames, the k-th being the frame
\* the k-th apo_proc call returned (up to its normalization).
C7_LoopInvariant ==
    /\ ind <= Len(args.ffiles)
    /\ pc \in {"axes", "loop"} \/ exc # "" \/ ind = Len(args.ffiles)
    /\ \A k \in CallsOf("apo_proc") :
           /\ k <= Len(args.ffiles)
           /\ \A l \in 1..k : calls[l].fn = "apo_proc"
           /\ calls[k].arg = [file |-> args.ffiles[k], bias |-> args.bias,
                              dark |-> args.dark, EXPTIME |-> args.EXPTIME,
                              DATASEC |-> args.DATASEC, trim |-> args.trim]
    /\ Len(flist) = Cardinality(ReturnsOf("apo_proc"))
    /\ \A c \in CallsOf("median_combine") :
           /\ c = Len(args.ffiles) + 1
           /\ Len(calls[c].arg.frames) = Len(args.ffiles)
           /\ \A k \in 1..Len(args.ffiles) :
                  SameUpToScale(calls[c].arg.frames[k], calls[k].ret)

\* One pass through the loop either raises or advances ind by one and adds
\* one frame to flist; the loop is left only for the combination.
C7_LoopStep ==
    pc = "loop" =>
        \/ pc' = "raised"
        \/ pc' = "loop" /\ ind' = ind + 1 /\ Len(flist') = Len(flist) + 1
        \/ pc' = "illum" /\ ind' = ind /\ ind = Len(args.ffiles)

\* C7: the reduction loop terminates after exactly len(ffiles) iterations
\* (every iteration advances ind by one, ind never exceeds len(ffiles) and
\* the loop is left when ind reaches it); apo_proc is called once per entry
\* of ffiles, in input order, with the bias, dark, trim, EXPTIME and DATASEC
\* of the call, and the list handed to the median combination holds exactly
\* these len(ffiles) frames in that order.
C7_ReductionLoop == []C7_LoopInvariant /\ [][C7_LoopStep]_vars

C7_Witness ==
    /\ Len(args.ffiles) = 2
    /\ args.ffiles[1] # args.ffiles[2]
    /\ args.bias = "medbias"
    /\ CallsOf("median_combine") = {3}
    /\ calls[1].ret # calls[2].ret
    /\ SameShape(calls[1].ret.data, calls[2].ret.data)
    /\ calls[3].err = ""

\* C8: with illumcor True the flat is cut along the spatial axis only, to
\* the indices ilum[0]..ilum[-1] inclusive: rows when Waxis = 1, columns when
\* Waxis = 0.  The trimmed flat has ilum[-1] - ilum[0] + 1 elements along
\* that axis and the combined flat's extent along the wavelength axis.
C8_TrimToIllum ==
    /\ (args.illumcor /\ pc \in {"response", "return", "done"}) =>
           ReturnsOf("trim_image") # {}
    /\ \A t \in CallsOf("trim_image") :
        \E c \in ReturnsOf("median_combine") : \E f \in ReturnsOf("find_illum") :
            LET comb == calls[c].ret.data
                il == calls[f].ret
                lo == il[1]
                hi == il[Len(il)]
                cut == calls[t].arg.flat.data
            IN  /\ Waxis \in {0, 1}
                /\ Extent(cut, 1 - Waxis) = hi - lo + 1
                /\ Extent(cut, Waxis) = Extent(comb, Waxis)
                /\ \A i \in 1..NRows(cut) : \A j \in 1..Len(cut[i]) :
                       cut[i][j] = IF Waxis = 1 THEN comb[i + lo][j]
                                   ELSE comb[i][j + lo]
                /\ calls[t].err = "" =>
                       /\ calls[t].ret.data = cut
                       /\ pc \in {"response", "return", "done"} => medflat.data = cut

====
